---- MODULE Spec2Model ----
(***************************************************************************)
(* Model of driver/manager.py: InfrastructureManager, the one-command      *)
(* bring-up pipeline (unlock, reap, bootstrap, bridge-environment, build,  *)
(* deploy, health-poll, tunnel) and its command runner.                    *)
(*                                                                         *)
(* Text (command output, environment values) is a tuple of one-character   *)
(* strings, so that Python's `in`, strip, startswith, split and splitlines *)
(* are computed on characters as the code computes them.                   *)
(***************************************************************************)
EXTENDS Integers, Sequences, FiniteSets, TLC

\* ------------------------------------------------------------------ bounds
\* number of service directories (with a Dockerfile) under PROJECT_ROOT
MaxServices == 2
\* number of interrupts (SIGINT) delivered to the process in one run
MaxInterrupts == 1
\* number of whitespace-separated tokens of a status snapshot in SpecHealth
MaxTokens == 4

\* ------------------------------------------------------- program constants
\* wait_for_pods: `while retries < 40`
RetryCeiling == 40
\* wait_for_pods: time.sleep(3)
PollInterval == 3
\* cleanup_resources: time.sleep(5)
SettleDelay == 5

\* -------------------------------------------------------------- text data
sRunning ==
    <<"R", "u", "n", "n", "i", "n", "g">>
sError ==
    <<"E", "r", "r", "o", "r">>
sCrashLoop ==
    <<"C", "r", "a", "s", "h", "L", "o", "o", "p">>
sContainerCreating ==
    <<"C", "o", "n", "t", "a", "i", "n", "e", "r", "C", "r", "e", "a", "t", "i", "n", "g">>
sBackend ==
    <<"b", "a", "c", "k", "e", "n", "d">>
sUi ==
    <<"u", "i">>
sCrashLoopBackOff ==
    <<"C", "r", "a", "s", "h", "L", "o", "o", "p", "B", "a", "c", "k", "O", "f", "f">>
sPending ==
    <<"P", "e", "n", "d", "i", "n", "g">>
sLowerRunning ==
    <<"r", "u", "n", "n", "i", "n", "g">>
StatusRunning ==
    <<"h", "o", "s", "t", ":", " ", "R", "u", "n", "n", "i", "n", "g">>
StatusStopped ==
    <<"h", "o", "s", "t", ":", " ", "S", "t", "o", "p", "p", "e", "d">>
IpOutput ==
    <<"1", "0", ".", "0", ".", "0", ".", "2", "\n">>
\* a faulty fallback: the address stays unset
IpPlaceholder_unset ==
    <<"None">>
IpPlaceholder ==
    <<"<", "m", "i", "n", "i", "k", "u", "b", "e", "-", "i", "p", ">">>
PrefixHost ==
    <<"$", "E", "n", "v", ":", "D", "O", "C", "K", "E", "R", "_", "H", "O", "S", "T">>
PrefixTls ==
    <<"$", "E", "n", "v", ":", "D", "O", "C", "K", "E", "R", "_", "T", "L", "S", "_", "V", "E", "R", "I", "F", "Y">>
PrefixCert ==
    <<"$", "E", "n", "v", ":", "D", "O", "C", "K", "E", "R", "_", "C", "E", "R", "T", "_", "P", "A", "T", "H">>
LineHost ==
    <<"$", "E", "n", "v", ":", "D", "O", "C", "K", "E", "R", "_", "H", "O", "S", "T", " ", "=", " ", "\"", "t", "c", "p", ":", "/", "/", "1", ".", "2", ".", "3", ".", "4", ":", "2", "3", "7", "6", "\"">>
LineTls ==
    <<"$", "E", "n", "v", ":", "D", "O", "C", "K", "E", "R", "_", "T", "L", "S", "_", "V", "E", "R", "I", "F", "Y", " ", "=", " ", "\"", "1", "\"">>
LineCert ==
    <<" ", " ", "$", "E", "n", "v", ":", "D", "O", "C", "K", "E", "R", "_", "C", "E", "R", "T", "_", "P", "A", "T", "H", " ", "=", " ", "\"", "/", "c", "e", "r", "t", "s", "\"">>
LineHostBare ==
    <<"D", "O", "C", "K", "E", "R", "_", "H", "O", "S", "T", " ", "=", " ", "\"", "t", "c", "p", ":", "/", "/", "1", ".", "2", ".", "3", ".", "4", ":", "2", "3", "7", "6", "\"">>
LineComment ==
    <<"#", " ", "m", "i", "n", "i", "k", "u", "b", "e", " ", "d", "o", "c", "k", "e", "r", "-", "e", "n", "v">>
OldHost ==
    <<"t", "c", "p", ":", "/", "/", "o", "l", "d", ":", "1">>
PathValue ==
    <<"/", "b", "i", "n">>

NL == <<"\n">>
SP == <<" ">>

\* ------------------------------------------------------- text operations
\* Python: needle in hay
Contains(hay, needle) ==
    \E k \in 0..(Len(hay) - Len(needle)) : SubSeq(hay, k + 1, k + Len(needle)) = needle

\* Python: s.startswith(p)
StartsWith(s, p) == Len(s) >= Len(p) /\ SubSeq(s, 1, Len(p)) = p

Whitespace == {" ", "\t", "\n", "\r"}

RECURSIVE LStripChars(_, _)
LStripChars(s, chars) ==
    IF s # <<>> /\ Head(s) \in chars THEN LStripChars(Tail(s), chars) ELSE s

RECURSIVE RStripChars(_, _)
RStripChars(s, chars) ==
    IF s # <<>> /\ s[Len(s)] \in chars
    THEN RStripChars(SubSeq(s, 1, Len(s) - 1), chars)
    ELSE s

\* Python: s.strip()
Strip(s) == RStripChars(LStripChars(s, Whitespace), Whitespace)

\* a faulty trim: the quotes are kept
StripQuotes_kept(s) == s

\* Python: s.strip('"')
StripQuotes(s) == RStripChars(LStripChars(s, {"\""}), {"\""})

\* index of the first occurrence of character c in s, 0 when there is none
IndexOf(s, c) ==
    IF \E k \in 1..Len(s) : s[k] = c
    THEN CHOOSE k \in 1..Len(s) : s[k] = c /\ \A j \in 1..(k - 1) : s[j] # c
    ELSE 0

\* Python: s.split(c, 1)
SplitOnce(s, c) ==
    LET k == IndexOf(s, c)
    IN  IF k = 0 THEN <<s>> ELSE <<SubSeq(s, 1, k - 1), SubSeq(s, k + 1, Len(s))>>

\* Python: s.splitlines()
RECURSIVE SplitLines(_)
SplitLines(s) ==
    IF s = <<>> THEN <<>>
    ELSE LET k == IndexOf(s, "\n")
         IN  IF k = 0 THEN <<s>>
             ELSE <<SubSeq(s, 1, k - 1)>> \o SplitLines(SubSeq(s, k + 1, Len(s)))

\* a faulty assignment: the other entries are dropped
Put_alone(d, k, v) == [x \in {k} |-> v]

\* Python dict: key test and d[k] = v
Has(d, k) == k \in DOMAIN d
Put(d, k, v) == [x \in (DOMAIN d) \cup {k} |-> IF x = k THEN v ELSE d[x]]

Last(s) == s[Len(s)]

\* ------------------------------------------------------------ the world
\* config.json contents that json.load accepts
CfgFull ==
    [ingress |-> [namespace |-> "app", local_port |-> 8080,
                  container_port |-> 80, service_name |-> "ingress-nginx"]]
CfgNoLocalPort ==
    [ingress |-> [namespace |-> "app",
                  container_port |-> 80, service_name |-> "ingress-nginx"]]
CfgNoIngress == [version |-> 1]

\* states of CONFIG_FILE on disk
ConfigFiles ==
    {[exists |-> FALSE, parses |-> FALSE, value |-> CfgNoIngress],
     [exists |-> TRUE, parses |-> FALSE, value |-> CfgNoIngress],
     [exists |-> TRUE, parses |-> TRUE, value |-> CfgNoIngress],
     [exists |-> TRUE, parses |-> TRUE, value |-> CfgNoLocalPort],
     [exists |-> TRUE, parses |-> TRUE, value |-> CfgFull]}

IngressFields == <<"local_port", "container_port", "namespace", "service_name">>

\* names of the service directories PROJECT_ROOT may hold
ServicePool == <<"backend", "ui", "db", "cache">>

\* os.listdir(PROJECT_ROOT): n service directories among other entries
Listing(n) ==
    <<[name |-> "README.md", isdir |-> FALSE, dockerfile |-> FALSE],
      [name |-> "k8s", isdir |-> TRUE, dockerfile |-> FALSE]>>
    \o [i \in 1..n |-> [name |-> ServicePool[i], isdir |-> TRUE, dockerfile |-> TRUE]]
    \o <<[name |-> "terraform", isdir |-> TRUE, dockerfile |-> FALSE]>>

\* os.environ of the host process
HostEnvs ==
    {[PATH |-> PathValue],
     [PATH |-> PathValue, DOCKER_HOST |-> OldHost]}

\* what `minikube status` may answer: exit status and stdout
StatusResults ==
    {[returncode |-> "zero", stdout |-> StatusRunning],
     [returncode |-> "zero", stdout |-> StatusStopped],
     [returncode |-> "nonzero", stdout |-> StatusStopped],
     [returncode |-> "nonzero", stdout |-> StatusRunning \o NL \o StatusStopped]}

\* what `minikube docker-env --shell powershell` may print
DockerEnvFull == LineComment \o NL \o LineHost \o NL \o LineTls \o NL \o LineCert \o NL
DockerEnvNoTls == LineHost \o NL \o LineCert \o NL
DockerEnvBadTls == LineHost \o NL \o PrefixTls \o NL \o LineCert \o NL
DockerEnvBadFirst == PrefixTls \o NL \o LineHost \o NL
DockerEnvBare == LineComment \o NL \o LineHostBare \o NL
DockerEnvOutputs ==
    {DockerEnvFull, DockerEnvNoTls, DockerEnvBadTls, DockerEnvBadFirst,
     DockerEnvBare, <<>>}

\* what `kubectl get pods` may print
PodsHealthy == sBackend \o SP \o sRunning \o NL \o sUi \o SP \o sRunning \o NL
PodsCrashLoop == sBackend \o SP \o sRunning \o NL \o sUi \o SP \o sCrashLoopBackOff \o NL
PodOutputs == {PodsHealthy, PodsCrashLoop}

\* how an external process may end: exit status 0, exit status # 0, or the
\* launch itself raising OSError (the executable is missing)
Outcomes == {"zero", "nonzero", "oserror"}

\* self.minikube_ip = None
None == <<"None">>

\* no command has completed yet
NoResult == [cmd |-> "", n |-> 0, rc |-> "", out |-> <<>>]

\* the process has not exited
Alive == [code |-> -1, cause |-> "running"]

\* ------------------------------------------------------------- the state
VARIABLES
    pc,           \* position of the process: a step about to start, a command in flight, "exited"
    exit,         \* exit status of the process and what ended it
    cfgFile,      \* CONFIG_FILE on disk
    listdir,      \* os.listdir(PROJECT_ROOT)
    hostEnv,      \* os.environ
    lockFile,     \* whether terraform/local/.terraform.tfstate.lock.info exists
    lock0,        \* whether that file existed when the process started
    config,       \* self.config
    services,     \* self.services
    env,          \* self.env
    minikube_ip,  \* self.minikube_ip
    service_idx,  \* build_images: position of the loop in self.services
    retries,      \* wait_for_pods: retries
    last,         \* the last completed command: exit status and what its caller received
    steps,        \* the steps of main started so far, in order
    cmds,         \* the external commands launched so far, in order
    log,          \* the Logger lines emitted so far (debug lines are not kept)
    now,          \* time spent in time.sleep
    interrupts    \* the interrupts delivered so far: where the process was

vars ==
    <<pc, exit, cfgFile, listdir, hostEnv, lock0, lockFile, config, services, env, minikube_ip,
      service_idx, retries, last, steps, cmds, log, now, interrupts>>

world == <<cfgFile, listdir, hostEnv, lock0>>

Line(level, msg, ref) == [level |-> level, msg |-> msg, ref |-> ref]

\* a command is launched: its name, its argument and the environment it gets
\* ("self.env" through run_cmd, "os.environ" when subprocess is called directly)
\* a faulty launch: every child inherits the environment of the host process
Launch_inherit(cmd, arg, e) == Append(cmds, [cmd |-> cmd, arg |-> arg, env |-> "os.environ"])

Launch(cmd, arg, e) == Append(cmds, [cmd |-> cmd, arg |-> arg, env |-> e])

Init ==
    /\ pc = "construct"
    /\ exit = Alive
    /\ cfgFile \in ConfigFiles
    /\ listdir \in {Listing(n) : n \in 0..MaxServices}
    /\ hostEnv \in HostEnvs
    /\ lockFile \in BOOLEAN
    /\ lock0 = lockFile
    /\ config = [unset |-> TRUE]
    /\ services = <<>>
    /\ env = [unset |-> <<>>]
    /\ minikube_ip = None
    /\ service_idx = 0
    /\ retries = 0
    /\ last = NoResult
    /\ steps = <<>>
    /\ cmds = <<>>
    /\ log = <<>>
    /\ now = 0
    /\ interrupts = <<>>

\* ---------------------------------------------------------- construction
\* a faulty discovery: every directory counts, with or without a Dockerfile
discover_services_all(entries) ==
    LET found == SelectSeq(entries, LAMBDA e : e.isdir)
    IN  [i \in 1..Len(found) |-> found[i].name]

discover_services(entries) ==
    LET found == SelectSeq(entries, LAMBDA e : e.isdir /\ e.dockerfile)
    IN  [i \in 1..Len(found) |-> found[i].name]

\* load_config: "missing", "unparseable" or "loaded"
load_config(file) ==
    IF ~file.exists THEN "missing"
    ELSE IF ~file.parses THEN "unparseable"
    ELSE "loaded"

\* a faulty main: the build runs before the environment is bridged
main_reordered ==
    <<"unlock", "reap", "bootstrap", "build", "bridge-environment",
      "deploy", "health-poll", "tunnel">>

\* the order of main
main ==
    <<"unlock", "reap", "bootstrap", "bridge-environment",
      "build", "deploy", "health-poll", "tunnel">>

\* a faulty main: when the deploy returns the build is called again
Return_rebuild(step) ==
    LET k == CHOOSE i \in 1..Len(main) : main[i] = step
    IN  IF step = "deploy" THEN "build"
        ELSE IF k < Len(main) THEN main[k + 1] ELSE "return"

\* where main goes when `step` returns: the next call, or the end of main
Return(step) ==
    LET k == CHOOSE i \in 1..Len(main) : main[i] = step
    IN  IF k < Len(main) THEN main[k + 1] ELSE "return"

Exit(code, cause) == [code |-> code, cause |-> cause]

Construct ==
    /\ pc = "construct"
    /\ env' = hostEnv
    /\ LET how == load_config(cfgFile)
       IN  IF how = "loaded"
           THEN /\ config' = cfgFile.value
                /\ services' = discover_services(listdir)
                /\ pc' = main[1]
                /\ UNCHANGED <<exit, log>>
           ELSE /\ log' = Append(log, Line("error", how, "config.json"))
                /\ pc' = "exited"
                /\ exit' = Exit(1, "sys.exit")
                /\ UNCHANGED <<config, services>>
    /\ UNCHANGED <<world, lockFile, minikube_ip, service_idx, retries, last,
                   steps, cmds, now, interrupts>>

\* ------------------------------------------------------------ run_cmd
\* a faulty run_cmd: CalledProcessError is always swallowed
run_cmd_no_exit(rc, ignore_errors) ==
    IF rc = "zero" THEN "return"
    ELSE IF rc = "nonzero" THEN "return_empty"
    ELSE "raise"

\* a faulty run_cmd: ignore_errors is not looked at
run_cmd_no_ignore(rc, ignore_errors) ==
    IF rc = "zero" THEN "return"
    ELSE IF rc = "nonzero" THEN "exit"
    ELSE "raise"

\* what run_cmd does when the process it ran ends with `rc`: "return" its
\* output, "return_empty" (CalledProcessError under ignore_errors), "exit"
\* (Logger.error, sys.exit(1)) or "raise" (an OSError nothing catches)
run_cmd(rc, ignore_errors) ==
    IF rc = "zero" THEN "return"
    ELSE IF rc = "nonzero" THEN (IF ignore_errors THEN "return_empty" ELSE "exit")
    ELSE "raise"

\* what the caller of run_cmd receives
run_cmd_value(how, stdout, capture) ==
    IF how = "return" /\ capture THEN Strip(stdout) ELSE <<>>

\* the command in flight (the last one launched, the n-th of the run) ends
Completed(rc, out) == [cmd |-> Last(cmds).cmd, n |-> Len(cmds), rc |-> rc, out |-> out]

\* run_cmd ends the process
RunCmdAbort(how) ==
    /\ pc' = "exited"
    /\ exit' = Exit(1, IF how = "exit" THEN "sys.exit" ELSE "OSError")
    /\ log' = IF how = "exit"
              THEN Append(log, Line("error", "Command failed", Last(cmds).cmd))
              ELSE log

\* self.config["ingress"][field], when it does not raise KeyError
HasField(cfg, field) == Has(cfg, "ingress") /\ Has(cfg["ingress"], field)

\* ------------------------------------------------------------ LockGuard
\* a faulty removal: the file is left in place
os_remove_noop(outcome) == TRUE

\* a faulty LockGuard: a removal that raises ends the run
force_unlock_next_fatal(outcome) ==
    IF outcome = "raises" THEN "exited" ELSE "reap"

\* os.remove(lock_file): whether the file exists afterwards
os_remove(outcome) == outcome = "raises"

\* where force_unlock_terraform leaves the process
force_unlock_next(outcome) == Return("unlock")

force_unlock_terraform ==
    /\ pc = "unlock"
    /\ steps' = Append(steps, "unlock")
    /\ IF lockFile
       THEN \E outcome \in {"removed", "raises"} :
                /\ lockFile' = os_remove(outcome)
                /\ log' = log \o
                       <<Line("warning", "Found Terraform Lock File", "lock_file"),
                         IF outcome = "removed"
                         THEN Line("success", "Removed Lock File", "lock_file")
                         ELSE Line("error", "Could not remove lock file", "lock_file")>>
                /\ pc' = force_unlock_next(outcome)
       ELSE /\ pc' = force_unlock_next("absent")
            /\ UNCHANGED <<lockFile, log>>
    /\ UNCHANGED <<exit, world, config, services, env, minikube_ip, service_idx,
                   retries, last, cmds, now, interrupts>>

\* --------------------------------------------------------- ResourceReaper
cleanup_resources ==
    /\ pc = "reap"
    /\ steps' = Append(steps, "reap")
    /\ log' = log \o <<Line("header", "Step 0: Cleaning Up Old Resources", ""),
                       Line("info", "Force deleting", "")>>
    /\ cmds' = Launch("kubectl delete all", <<>>, "self.env")
    /\ pc' = "delete_all"
    /\ UNCHANGED <<exit, world, lockFile, config, services, env, minikube_ip,
                   service_idx, retries, last, now, interrupts>>

DeleteAll ==
    /\ pc = "delete_all"
    /\ \E rc \in Outcomes :
        LET how == run_cmd(rc, TRUE)
        IN  /\ last' = Completed(rc, run_cmd_value(how, <<>>, TRUE))
            /\ IF how \in {"return", "return_empty"}
               THEN /\ pc' = "delete_ns_args"
                    /\ UNCHANGED <<exit, log>>
               ELSE RunCmdAbort(how)
    /\ UNCHANGED <<world, lockFile, config, services, env, minikube_ip,
                   service_idx, retries, steps, cmds, now, interrupts>>

\* line 93 builds the second command from self.config["ingress"]["namespace"]
DeleteNamespaceArgs ==
    /\ pc = "delete_ns_args"
    /\ IF HasField(config, "namespace")
       THEN /\ cmds' = Launch("kubectl delete namespace",
                              <<config["ingress"]["namespace"]>>, "self.env")
            /\ pc' = "delete_ns"
            /\ UNCHANGED exit
       ELSE /\ pc' = "exited"
            /\ exit' = Exit(1, "KeyError")
            /\ UNCHANGED cmds
    /\ UNCHANGED <<world, lockFile, config, services, env, minikube_ip,
                   service_idx, retries, last, steps, log, now, interrupts>>

DeleteNamespace ==
    /\ pc = "delete_ns"
    /\ \E rc \in Outcomes :
        LET how == run_cmd(rc, TRUE)
        IN  /\ last' = Completed(rc, run_cmd_value(how, <<>>, TRUE))
            /\ IF how \in {"return", "return_empty"}
               THEN /\ pc' = "settle"
                    /\ UNCHANGED <<exit, log>>
               ELSE RunCmdAbort(how)
    /\ UNCHANGED <<world, lockFile, config, services, env, minikube_ip,
                   service_idx, retries, steps, cmds, now, interrupts>>

Settle ==
    /\ pc = "settle"
    /\ now' = now + SettleDelay
    /\ log' = log \o <<Line("info", "Waiting 5 seconds", ""),
                       Line("success", "Cleanup complete.", "")>>
    /\ pc' = Return("reap")
    /\ UNCHANGED <<exit, world, lockFile, config, services, env, minikube_ip,
                   service_idx, retries, last, steps, cmds, interrupts>>

\* ----------------------------------------------------- ClusterBootstrapper
\* line 105: the cluster counts as running
\* a faulty test: the exit status of the query is not looked at
IsRunning_marker_only(result) == Contains(result.stdout, sRunning)

IsRunning(result) ==
    result.returncode = "zero" /\ Contains(result.stdout, sRunning)

check_minikube ==
    /\ pc = "bootstrap"
    /\ steps' = Append(steps, "bootstrap")
    /\ log' = Append(log, Line("header", "Step 1: Checking Infrastructure", ""))
    /\ cmds' = Launch("minikube status", <<>>, "os.environ")
    /\ pc' = "status"
    /\ UNCHANGED <<exit, world, lockFile, config, services, env, minikube_ip,
                   service_idx, retries, last, now, interrupts>>

\* lines 110-112: `except Exception` around the status query and the start
MinikubeCheckFailed ==
    /\ log' = Append(log, Line("error", "Minikube check failed", Last(cmds).cmd))
    /\ pc' = "exited"
    /\ exit' = Exit(1, "sys.exit")
    /\ UNCHANGED cmds

MinikubeStatus ==
    /\ pc = "status"
    /\ \/ \E result \in StatusResults :
            /\ last' = Completed(result.returncode, result.stdout)
            /\ IF IsRunning(result)
               THEN /\ log' = Append(log, Line("success", "Minikube is running.", ""))
                    /\ cmds' = Launch("minikube ip", <<>>, "os.environ")
                    /\ pc' = "ip"
               ELSE /\ log' = Append(log, Line("warning", "Starting Minikube...", ""))
                    /\ cmds' = Launch("minikube start", <<>>, "os.environ")
                    /\ pc' = "start"
            /\ UNCHANGED exit
       \/ /\ last' = Completed("oserror", <<>>)
          /\ MinikubeCheckFailed
    /\ UNCHANGED <<world, lockFile, config, services, env, minikube_ip,
                   service_idx, retries, steps, now, interrupts>>

MinikubeStart ==
    /\ pc = "start"
    /\ \E rc \in Outcomes :
        /\ last' = Completed(rc, <<>>)
        /\ IF rc = "zero"
           THEN /\ cmds' = Launch("minikube ip", <<>>, "os.environ")
                /\ pc' = "ip"
                /\ UNCHANGED <<exit, log>>
           ELSE MinikubeCheckFailed
    /\ UNCHANGED <<world, lockFile, config, services, env, minikube_ip,
                   service_idx, retries, steps, now, interrupts>>

\* lines 114-119: the address, or the placeholder on any failure
MinikubeIp ==
    /\ pc = "ip"
    /\ \E rc \in Outcomes :
        /\ last' = Completed(rc, IF rc = "zero" THEN IpOutput ELSE <<>>)
        /\ IF rc = "zero"
           THEN /\ minikube_ip' = Strip(IpOutput)
                /\ log' = Append(log, Line("info", "Minikube IP", ""))
           ELSE /\ minikube_ip' = IpPlaceholder
                /\ UNCHANGED log
    /\ pc' = Return("bootstrap")
    /\ UNCHANGED <<exit, world, lockFile, config, services, env,
                   service_idx, retries, steps, cmds, now, interrupts>>

\* ------------------------------------------------------- EnvironmentBridge
\* the if/elif chain of lines 127-132, in order
BridgeKeys ==
    <<[prefix |-> PrefixHost, key |-> "DOCKER_HOST"],
      [prefix |-> PrefixTls, key |-> "DOCKER_TLS_VERIFY"],
      [prefix |-> PrefixCert, key |-> "DOCKER_CERT_PATH"]>>

\* a faulty loop body: a line with none of the prefixes blanks DOCKER_HOST
ParseLine_else_blank(e, line) ==
    LET hits == {k \in 1..Len(BridgeKeys) : StartsWith(Strip(line), BridgeKeys[k].prefix)}
    IN  IF hits = {} THEN [env |-> Put(e, "DOCKER_HOST", <<>>), raised |-> FALSE]
        ELSE LET k == CHOOSE h \in hits : \A g \in hits : h <= g
                 parts == SplitOnce(line, "=")
             IN  IF Len(parts) < 2 THEN [env |-> e, raised |-> TRUE]
                 ELSE [env |-> Put(e, BridgeKeys[k].key, StripQuotes(Strip(parts[2]))),
                       raised |-> FALSE]

\* one pass of the loop body: the environment after the line, and whether
\* line.split("=", 1)[1] raised IndexError
ParseLine(e, line) ==
    LET hits == {k \in 1..Len(BridgeKeys) : StartsWith(Strip(line), BridgeKeys[k].prefix)}
    IN  IF hits = {} THEN [env |-> e, raised |-> FALSE]
        ELSE LET k == CHOOSE h \in hits : \A g \in hits : h <= g
                 parts == SplitOnce(line, "=")
             IN  IF Len(parts) < 2 THEN [env |-> e, raised |-> TRUE]
                 ELSE [env |-> Put(e, BridgeKeys[k].key, StripQuotes(Strip(parts[2]))),
                       raised |-> FALSE]

RECURSIVE ParseLines(_, _)
ParseLines(e, lines) ==
    IF lines = <<>> THEN [env |-> e, raised |-> FALSE]
    ELSE LET r == ParseLine(e, Head(lines))
         IN  IF r.raised THEN r ELSE ParseLines(r.env, Tail(lines))

set_docker_env ==
    /\ pc = "bridge-environment"
    /\ steps' = Append(steps, "bridge-environment")
    /\ log' = Append(log, Line("header", "Step 2: Configuring Docker Environment", ""))
    /\ cmds' = Launch("minikube docker-env", <<>>, "os.environ")
    /\ pc' = "docker_env"
    /\ UNCHANGED <<exit, world, lockFile, config, services, env, minikube_ip,
                   service_idx, retries, last, now, interrupts>>

DockerEnv ==
    /\ pc = "docker_env"
    /\ \/ \E output \in DockerEnvOutputs :
            LET r == ParseLines(env, SplitLines(output))
            IN  /\ last' = Completed("zero", output)
                /\ env' = r.env
                /\ log' = Append(log,
                            IF r.raised
                            THEN Line("error", "Failed to configure Docker env", "")
                            ELSE Line("info", "Docker pointed to Minikube", ""))
       \/ \E rc \in Outcomes \ {"zero"} :
            /\ last' = Completed(rc, <<>>)
            /\ log' = Append(log, Line("error", "Failed to configure Docker env", ""))
            /\ UNCHANGED env
    /\ pc' = Return("bridge-environment")
    /\ UNCHANGED <<exit, world, lockFile, config, services, minikube_ip,
                   service_idx, retries, steps, cmds, now, interrupts>>

\* ------------------------------------------------------------ ImageBuilder
build_images ==
    /\ pc = "build"
    /\ steps' = Append(steps, "build")
    /\ IF services = <<>>
       THEN /\ log' = log \o <<Line("header", "Step 4: Building Service Images", ""),
                               Line("success", "Images built.", "")>>
            /\ pc' = Return("build")
            /\ UNCHANGED <<service_idx, cmds>>
       ELSE /\ log' = log \o <<Line("header", "Step 4: Building Service Images", ""),
                               Line("info", "Building", services[1])>>
            /\ service_idx' = 1
            /\ cmds' = Launch("docker build", <<services[1]>>, "self.env")
            /\ pc' = "building"
    /\ UNCHANGED <<exit, world, lockFile, config, services, env, minikube_ip,
                   retries, last, now, interrupts>>

DockerBuild ==
    /\ pc = "building"
    /\ \E rc \in Outcomes :
        LET how == run_cmd(rc, FALSE)
        IN  /\ last' = Completed(rc, run_cmd_value(how, <<>>, TRUE))
            /\ IF how \in {"return", "return_empty"}
               THEN /\ IF service_idx < Len(services)
                       THEN /\ service_idx' = service_idx + 1
                            /\ log' = Append(log, Line("info", "Building",
                                                       services[service_idx + 1]))
                            /\ cmds' = Launch("docker build",
                                              <<services[service_idx + 1]>>, "self.env")
                            /\ pc' = "building"
                       ELSE /\ log' = Append(log, Line("success", "Images built.", ""))
                            /\ pc' = Return("build")
                            /\ UNCHANGED <<service_idx, cmds>>
                    /\ UNCHANGED exit
               ELSE /\ RunCmdAbort(how)
                    /\ UNCHANGED <<service_idx, cmds>>
    /\ UNCHANGED <<world, lockFile, config, services, env, minikube_ip,
                   retries, steps, now, interrupts>>

\* -------------------------------------------------------- DeploymentApplier
deploy_k8s ==
    /\ pc = "deploy"
    /\ steps' = Append(steps, "deploy")
    /\ log' = Append(log, Line("header", "Step 5: Deploying via Terraform", ""))
    /\ cmds' = Launch("terraform init", <<>>, "self.env")
    /\ pc' = "tf_init"
    /\ UNCHANGED <<exit, world, lockFile, config, services, env, minikube_ip,
                   service_idx, retries, last, now, interrupts>>

TerraformInit ==
    /\ pc = "tf_init"
    /\ \E rc \in Outcomes :
        LET how == run_cmd(rc, FALSE)
        IN  /\ last' = Completed(rc, run_cmd_value(how, <<>>, FALSE))
            /\ IF how \in {"return", "return_empty"}
               THEN /\ cmds' = Launch("terraform apply", <<>>, "self.env")
                    /\ pc' = "tf_apply"
                    /\ UNCHANGED <<exit, log>>
               ELSE /\ RunCmdAbort(how)
                    /\ UNCHANGED cmds
    /\ UNCHANGED <<world, lockFile, config, services, env, minikube_ip,
                   service_idx, retries, steps, now, interrupts>>

TerraformApply ==
    /\ pc = "tf_apply"
    /\ \E rc \in Outcomes :
        LET how == run_cmd(rc, FALSE)
        IN  /\ last' = Completed(rc, run_cmd_value(how, <<>>, FALSE))
            /\ IF how \in {"return", "return_empty"}
               THEN /\ log' = Append(log, Line("success", "Terraform apply completed.", ""))
                    /\ pc' = Return("deploy")
                    /\ UNCHANGED exit
               ELSE RunCmdAbort(how)
    /\ UNCHANGED <<world, lockFile, config, services, env, minikube_ip,
                   service_idx, retries, steps, cmds, now, interrupts>>

\* ------------------------------------------------------------ HealthPoller
\* a faulty predicate: the crash-loop keyword is not looked for
Healthy_ignoring_crashloop(output) ==
    /\ Contains(output, sRunning)
    /\ ~Contains(output, sError)
    /\ ~Contains(output, sContainerCreating)
    /\ Contains(output, sBackend)
    /\ Contains(output, sUi)

\* a faulty loop test: one round too many
LoopContinues_inclusive(r) == r <= RetryCeiling

\* a faulty poller: the timeout ends the run
wait_for_pods_next_fatal(how) ==
    IF how = "timeout" THEN "exited" ELSE "tunnel"

\* lines 155-156: the health predicate on one status snapshot
Healthy(output) ==
    /\ Contains(output, sRunning)
    /\ ~Contains(output, sError)
    /\ ~Contains(output, sCrashLoop)
    /\ ~Contains(output, sContainerCreating)
    /\ Contains(output, sBackend)
    /\ Contains(output, sUi)

\* line 153: while retries < 40
LoopContinues(r) == r < RetryCeiling

\* where wait_for_pods leaves the process: "ok" is the return of line 158,
\* "timeout" the fall through line 162
wait_for_pods_next(how) == Return("health-poll")

wait_for_pods ==
    /\ pc = "health-poll"
    /\ steps' = Append(steps, "health-poll")
    /\ retries' = 0
    /\ IF LoopContinues(0)
       THEN /\ log' = Append(log, Line("header", "Step 6: Health Check", ""))
            /\ cmds' = Launch("kubectl get pods", <<>>, "self.env")
            /\ pc' = "get_pods"
       ELSE /\ log' = log \o <<Line("header", "Step 6: Health Check", ""),
                               Line("warning", "Timed out waiting for pods.", "")>>
            /\ pc' = wait_for_pods_next("timeout")
            /\ UNCHANGED cmds
    /\ UNCHANGED <<exit, world, lockFile, config, services, env, minikube_ip,
                   service_idx, last, now, interrupts>>

GetPods ==
    /\ pc = "get_pods"
    /\ \E rc \in Outcomes, stdout \in PodOutputs :
        LET how == run_cmd(rc, FALSE)
            output == run_cmd_value(how, stdout, TRUE)
        IN  /\ last' = Completed(rc, output)
            /\ IF how \in {"return", "return_empty"}
               THEN /\ IF Healthy(output)
                       THEN /\ log' = Append(log, Line("success", "All Pods are RUNNING!", ""))
                            /\ pc' = wait_for_pods_next("ok")
                       ELSE /\ pc' = "poll_sleep"
                            /\ UNCHANGED log
                    /\ UNCHANGED exit
               ELSE RunCmdAbort(how)
    /\ UNCHANGED <<world, lockFile, config, services, env, minikube_ip,
                   service_idx, retries, steps, cmds, now, interrupts>>

\* lines 159-162 and the loop test of the next round
PollSleep ==
    /\ pc = "poll_sleep"
    /\ now' = now + PollInterval
    /\ retries' = retries + 1
    /\ IF LoopContinues(retries + 1)
       THEN /\ cmds' = Launch("kubectl get pods", <<>>, "self.env")
            /\ pc' = "get_pods"
            /\ UNCHANGED log
       ELSE /\ log' = Append(log, Line("warning", "Timed out waiting for pods.", ""))
            /\ pc' = wait_for_pods_next("timeout")
            /\ UNCHANGED cmds
    /\ UNCHANGED <<exit, world, lockFile, config, services, env, minikube_ip,
                   service_idx, last, steps, interrupts>>

\* ------------------------------------------------------------ TunnelOpener
open_tunnel ==
    /\ pc = "tunnel"
    /\ steps' = Append(steps, "tunnel")
    /\ IF \A k \in 1..Len(IngressFields) : HasField(config, IngressFields[k])
       THEN /\ log' = log \o <<Line("header", "Step 8: Opening Access Tunnel", ""),
                               Line("info", "Starting port-forwarding", ""),
                               Line("info", "Press Ctrl+C to stop.", "")>>
            /\ cmds' = Launch("kubectl port-forward",
                              <<config["ingress"]["namespace"],
                                config["ingress"]["service_name"],
                                config["ingress"]["local_port"],
                                config["ingress"]["container_port"]>>, "os.environ")
            /\ pc' = "port_forward"
            /\ UNCHANGED exit
       ELSE /\ pc' = "exited"
            /\ exit' = Exit(1, "KeyError")
            /\ UNCHANGED <<log, cmds>>
    /\ UNCHANGED <<world, lockFile, config, services, env, minikube_ip,
                   service_idx, retries, last, now, interrupts>>

\* the port-forward ends by itself: main returns on exit status 0, and
\* check=True raises CalledProcessError, which nothing catches, otherwise
PortForward ==
    /\ pc = "port_forward"
    /\ \E rc \in Outcomes :
        /\ last' = Completed(rc, <<>>)
        /\ pc' = "exited"
        /\ exit' = IF rc = "zero" THEN Exit(0, "returned")
                   ELSE IF rc = "nonzero" THEN Exit(1, "CalledProcessError")
                   ELSE Exit(1, "OSError")
    /\ UNCHANGED <<world, lockFile, config, services, env, minikube_ip,
                   service_idx, retries, steps, cmds, log, now, interrupts>>

\* -------------------------------------------------------------- interrupts
\* which handler a KeyboardInterrupt raised at `p` meets: the bare `except:`
\* of line 118 or of line 134, the `except KeyboardInterrupt` of line 184,
\* or none (`except Exception` does not catch KeyboardInterrupt)
\* a faulty tunnel: nothing catches the interrupt
handler_no_tunnel(p) ==
    IF p = "ip" THEN "line 118"
    ELSE IF p = "docker_env" THEN "line 134"
    ELSE "none"

handler(p) ==
    IF p = "ip" THEN "line 118"
    ELSE IF p = "docker_env" THEN "line 134"
    ELSE IF p = "port_forward" THEN "line 184"
    ELSE "none"

Delivered == Append(interrupts, [at |-> pc, nsteps |-> Len(steps), ncmds |-> Len(cmds)])

InterruptUncaught ==
    /\ pc # "exited"
    /\ Len(interrupts) < MaxInterrupts
    /\ handler(pc) = "none"
    /\ interrupts' = Delivered
    /\ pc' = "exited"
    /\ exit' = Exit(130, "KeyboardInterrupt")
    /\ UNCHANGED <<world, lockFile, config, services, env, minikube_ip,
                   service_idx, retries, last, steps, cmds, log, now>>

InterruptAddress ==
    /\ Len(interrupts) < MaxInterrupts
    /\ handler(pc) = "line 118"
    /\ interrupts' = Delivered
    /\ last' = Completed("interrupted", <<>>)
    /\ minikube_ip' = IpPlaceholder
    /\ pc' = Return("bootstrap")
    /\ UNCHANGED <<exit, world, lockFile, config, services, env,
                   service_idx, retries, steps, cmds, log, now>>

InterruptDockerEnv ==
    /\ Len(interrupts) < MaxInterrupts
    /\ handler(pc) = "line 134"
    /\ interrupts' = Delivered
    /\ last' = Completed("interrupted", <<>>)
    /\ log' = Append(log, Line("error", "Failed to configure Docker env", ""))
    /\ pc' = Return("bridge-environment")
    /\ UNCHANGED <<exit, world, lockFile, config, services, env, minikube_ip,
                   service_idx, retries, steps, cmds, now>>

InterruptTunnel ==
    /\ Len(interrupts) < MaxInterrupts
    /\ handler(pc) = "line 184"
    /\ interrupts' = Delivered
    /\ last' = Completed("interrupted", <<>>)
    /\ log' = Append(log, Line("info", "Goodbye!", ""))
    /\ pc' = "exited"
    /\ exit' = Exit(0, "returned")
    /\ UNCHANGED <<world, lockFile, config, services, env, minikube_ip,
                   service_idx, retries, steps, cmds, now>>

\* ----------------------------------------------------------- the program
Next ==
    \/ Construct
    \/ force_unlock_terraform
    \/ cleanup_resources
    \/ DeleteAll
    \/ DeleteNamespaceArgs
    \/ DeleteNamespace
    \/ Settle
    \/ check_minikube
    \/ MinikubeStatus
    \/ MinikubeStart
    \/ MinikubeIp
    \/ set_docker_env
    \/ DockerEnv
    \/ build_images
    \/ DockerBuild
    \/ deploy_k8s
    \/ TerraformInit
    \/ TerraformApply
    \/ wait_for_pods
    \/ GetPods
    \/ PollSleep
    \/ open_tunnel
    \/ PortForward
    \/ InterruptUncaught
    \/ InterruptAddress
    \/ InterruptDockerEnv
    \/ InterruptTunnel

Spec == Init /\ [][Next]_vars

\* the steps of the program itself up to the tunnel: main runs on, and every
\* external command launched before the port-forward returns (the
\* port-forward blocks for as long as the operator leaves it, and interrupts
\* come when they come)
Advance ==
    \/ Construct
    \/ force_unlock_terraform
    \/ cleanup_resources
    \/ DeleteAll
    \/ DeleteNamespaceArgs
    \/ DeleteNamespace
    \/ Settle
    \/ check_minikube
    \/ MinikubeStatus
    \/ MinikubeStart
    \/ MinikubeIp
    \/ set_docker_env
    \/ DockerEnv
    \/ build_images
    \/ DockerBuild
    \/ deploy_k8s
    \/ TerraformInit
    \/ TerraformApply
    \/ wait_for_pods
    \/ GetPods
    \/ PollSleep
    \/ open_tunnel

\* the runs of one host: no stale lock file, no engine variable preset
InitFair ==
    /\ Init
    /\ ~lockFile
    /\ hostEnv = [PATH |-> PathValue]

SpecFair == InitFair /\ [][Next]_vars /\ WF_vars(Advance)

\* ------------------------------------------- the health predicate alone
\* the words a status snapshot is made of
Tokens ==
    {sRunning, sError, sCrashLoopBackOff, sContainerCreating,
     sBackend, sUi, sPending, sLowerRunning}

RECURSIVE JoinTokens(_)
JoinTokens(ts) ==
    IF Len(ts) = 0 THEN <<>>
    ELSE IF Len(ts) = 1 THEN ts[1]
    ELSE ts[1] \o SP \o JoinTokens(Tail(ts))

Snapshots == UNION {{JoinTokens(ts) : ts \in [1..k -> Tokens]} : k \in 0..MaxTokens}

\* wait_for_pods has received a status snapshot from run_cmd
InitHealth ==
    /\ pc = "snapshot"
    /\ exit = Alive
    /\ cfgFile = [exists |-> TRUE, parses |-> TRUE, value |-> CfgFull]
    /\ listdir = Listing(0)
    /\ hostEnv = [PATH |-> PathValue]
    /\ lockFile = FALSE
    /\ lock0 = FALSE
    /\ config = CfgFull
    /\ services = <<>>
    /\ env = [PATH |-> PathValue]
    /\ minikube_ip = IpPlaceholder
    /\ service_idx = 0
    /\ retries = 0
    /\ \E text \in Snapshots :
          last = [cmd |-> "kubectl get pods", n |-> 1, rc |-> "zero", out |-> text]
    /\ steps = <<"health-poll">>
    /\ cmds = <<[cmd |-> "kubectl get pods", arg |-> <<>>, env |-> "self.env"]>>
    /\ log = <<>>
    /\ now = 0
    /\ interrupts = <<>>

\* lines 155-158 on that snapshot
EvalHealth ==
    /\ pc = "snapshot"
    /\ pc' = IF Healthy(last.out) THEN "healthy" ELSE "unhealthy"
    /\ UNCHANGED <<exit, world, lockFile, config, services, env, minikube_ip,
                   service_idx, retries, last, steps, cmds, log, now, interrupts>>

NextHealth == EvalHealth

SpecHealth == InitHealth /\ [][NextHealth]_vars

\* ================================================================ claims
InSeq(x, s) == \E i \in 1..Len(s) : s[i] = x

Logged(level, msg) == \E i \in 1..Len(log) : log[i].level = level /\ log[i].msg = msg

\* the step a position inside a step belongs to
StepOfPc(p) ==
    IF p \in {"delete_all", "delete_ns_args", "delete_ns", "settle"} THEN "reap"
    ELSE IF p \in {"status", "start", "ip"} THEN "bootstrap"
    ELSE IF p = "docker_env" THEN "bridge-environment"
    ELSE IF p = "building" THEN "build"
    ELSE IF p \in {"tf_init", "tf_apply"} THEN "deploy"
    ELSE IF p \in {"get_pods", "poll_sleep"} THEN "health-poll"
    ELSE IF p = "port_forward" THEN "tunnel"
    ELSE "none"

\* the step that launches a command
StepOfCmd(c) ==
    IF c \in {"kubectl delete all", "kubectl delete namespace"} THEN "reap"
    ELSE IF c \in {"minikube status", "minikube start", "minikube ip"} THEN "bootstrap"
    ELSE IF c = "minikube docker-env" THEN "bridge-environment"
    ELSE IF c = "docker build" THEN "build"
    ELSE IF c \in {"terraform init", "terraform apply"} THEN "deploy"
    ELSE IF c = "kubectl get pods" THEN "health-poll"
    ELSE "tunnel"

AllFields(cfg) == \A k \in 1..Len(IngressFields) : HasField(cfg, IngressFields[k])

\* the number of workload-status queries launched
Queries == Cardinality({i \in 1..Len(cmds) : cmds[i].cmd = "kubectl get pods"})

PollSucceeded == Logged("success", "All Pods are RUNNING!")
PollTimedOut == Logged("warning", "Timed out waiting for pods.")

\* the poller is over: it returned, or the process ended inside it
PollOver == InSeq("health-poll", steps) /\ pc \notin {"get_pods", "poll_sleep"}

\* main has called open_tunnel, or is about to (only an interrupt between the
\* two steps can keep it from that)
TunnelReached ==
    \/ pc = "tunnel"
    \/ InSeq("tunnel", steps)
    \/ pc = "exited" /\ exit.cause = "KeyboardInterrupt" /\ Last(interrupts).at = "tunnel"

\* C1: the eight steps start only in the order unlock, reap, bootstrap,
\* bridge-environment, build, deploy, health-poll, tunnel: the steps started
\* so far are always a prefix of that order (each at most once, none skipped,
\* the tunnel only after the seven others), a position inside a step belongs
\* to the last step started, and a step is about to start only when exactly
\* the steps before it have started and returned.
C1_Order ==
    <<"unlock", "reap", "bootstrap", "bridge-environment",
      "build", "deploy", "health-poll", "tunnel">>

C1_StepOrder ==
    /\ \E n \in 0..Len(C1_Order) : steps = SubSeq(C1_Order, 1, n)
    /\ StepOfPc(pc) # "none" => steps # <<>> /\ Last(steps) = StepOfPc(pc)
    /\ \A n \in 1..Len(C1_Order) : pc = C1_Order[n] => Len(steps) = n - 1

\* the tunnel step started after a lock removal that raised and a poll that timed out
C1_Witness ==
    /\ steps = C1_Order
    /\ pc = "port_forward"
    /\ Logged("error", "Could not remove lock file")
    /\ PollTimedOut

\* C2: a fail-fast command (image build, IaC initialize, IaC apply, the
\* poller's workload-status query, cluster start) that exits non-zero ends
\* the process with exit code 1, after exactly one error line referencing
\* it, which is the last line logged; no command and no step starts after it.
FailFast ==
    {"docker build", "terraform init", "terraform apply", "kubectl get pods",
     "minikube start"}

C2_FailFast ==
    (last.rc = "nonzero" /\ last.cmd \in FailFast) =>
        /\ pc = "exited"
        /\ exit.code = 1
        /\ Cardinality({i \in 1..Len(log) :
                          log[i].level = "error" /\ log[i].ref = last.cmd}) = 1
        /\ Last(log).level = "error" /\ Last(log).ref = last.cmd
        /\ last.n = Len(cmds)
        /\ Last(steps) = StepOfCmd(last.cmd)

\* a status query of the poller failed after some rounds
C2_Witness ==
    /\ last.rc = "nonzero"
    /\ last.cmd = "kubectl get pods"
    /\ retries > 0
    /\ pc = "exited"

\* C3: a best-effort command (the two deletions of the reaper) that exits
\* non-zero does not end the process and hands its caller an empty result;
\* after the second deletion the reaper pauses for the settle delay and the
\* run goes on to the bootstrap step, which never starts without that pause.
BestEffort == {"kubectl delete all", "kubectl delete namespace"}

C3_BestEffort ==
    /\ [](InSeq("bootstrap", steps) => now >= 5)
    /\ [][/\ (pc \in {"delete_all", "delete_ns"} /\ last'.n = Len(cmds)
                 /\ last'.rc = "nonzero")
              => (last'.out = <<>> /\ exit' = Alive /\ pc' # "exited")
          /\ (pc = "delete_ns" /\ last'.n = Len(cmds) /\ last'.rc = "nonzero")
              => pc' = "settle"
          /\ (pc = "settle" /\ interrupts' = interrupts)
              => (now' = now + 5 /\ pc' = "bootstrap" /\ exit' = Alive)]_vars

\* the namespace deletion failed and the run is about to bootstrap
C3_Witness ==
    /\ pc = "bootstrap"
    /\ last.cmd = "kubectl delete namespace"
    /\ last.rc = "nonzero"
    /\ last.out = <<>>
    /\ now = 5

\* C4: no step ever runs with a configuration that lacks one of the four
\* fields: either all four are present or the run ends before the unlock step.
C4_ConfigInvariant == steps # <<>> => AllFields(config)

\* C5: an interrupt delivered before the port-forward is in flight ends the
\* process, and no step or command starts after it.
C5_InterruptTerminates ==
    \A i \in 1..Len(interrupts) :
        interrupts[i].at # "port_forward" =>
            /\ pc = "exited"
            /\ Len(steps) = interrupts[i].nsteps
            /\ Len(cmds) = interrupts[i].ncmds

\* the poller was cut short by an interrupt or by a launch that raised OSError
PollCutShort ==
    \/ \E i \in 1..Len(interrupts) : interrupts[i].at \in {"get_pods", "poll_sleep"}
    \/ last.cmd = "kubectl get pods" /\ last.rc = "oserror"

\* C6 as stated: if the health predicate never succeeds (it has failed on at
\* least one snapshot and held on none), the poller issues exactly 40 status
\* queries and then returns normally, without the process ending (interrupts
\* and launch failures set aside).
C6_AlwaysFortyQueries ==
    (PollOver /\ retries >= 1 /\ ~PollSucceeded /\ ~PollCutShort) =>
        /\ Queries = 40
        /\ retries = 40
        /\ PollTimedOut
        /\ TunnelReached

\* C6 amended: the attempt count stays within 0..40, moves only up and only
\* by one, one status query is launched for each attempt; and if no status
\* query exits non-zero and the health predicate never succeeds, the poller
\* issues exactly 40 status queries and then returns normally to main.
C6_FortyQueries ==
    /\ [](/\ retries \in 0..40
          /\ Queries <= 40
          /\ pc \in {"get_pods", "poll_sleep"} => Queries = retries + 1
          /\ (/\ PollOver /\ ~PollSucceeded /\ ~PollCutShort
              /\ ~(last.cmd = "kubectl get pods" /\ last.rc = "nonzero"))
             => /\ Queries = 40
                /\ retries = 40
                /\ PollTimedOut
                /\ TunnelReached)
    /\ [][retries' = retries \/ retries' = retries + 1]_vars

\* the poller has just returned after 40 unhealthy snapshots
C6_Witness ==
    /\ pc = "tunnel"
    /\ PollTimedOut
    /\ Queries = 40
    /\ retries = 40

\* C7: a poller that exhausts its ceiling returns to main, and the tunnel
\* step starts as it does after a success (only an interrupt can come
\* between); a success at some attempt returns at once, with one status
\* query per attempt made and one pause per earlier attempt.
C7_TimeoutNonFatal ==
    /\ PollTimedOut => (retries = 40 /\ TunnelReached)
    /\ PollSucceeded =>
          /\ TunnelReached
          /\ Queries = retries + 1
          /\ now = 5 + 3 * retries

\* the port-forward is in flight after a poll that timed out
C7_Witness ==
    /\ PollTimedOut
    /\ pc = "port_forward"
    /\ Last(cmds).cmd = "kubectl port-forward"

\* C8: the health predicate succeeds exactly when the snapshot contains
\* "Running", none of "Error", "CrashLoop", "ContainerCreating", and both
\* "backend" and "ui"; a snapshot containing "CrashLoopBackOff" fails.
C8_HealthPredicate ==
    pc \in {"healthy", "unhealthy"} =>
        /\ pc = "healthy" <=>
              /\ Contains(last.out, <<"R", "u", "n", "n", "i", "n", "g">>)
              /\ \A kw \in {sError, sCrashLoop, sContainerCreating} : ~Contains(last.out, kw)
              /\ Contains(last.out, <<"b", "a", "c", "k", "e", "n", "d">>)
              /\ Contains(last.out, <<"u", "i">>)
        /\ Contains(last.out, sCrashLoopBackOff) => pc = "unhealthy"

\* a snapshot with every marker and a crash loop was judged unhealthy
C8_Witness ==
    /\ pc = "unhealthy"
    /\ Contains(last.out, sCrashLoopBackOff)
    /\ Contains(last.out, sRunning)
    /\ Contains(last.out, sBackend)
    /\ Contains(last.out, sUi)
    /\ ~Contains(last.out, sError)
    /\ ~Contains(last.out, sContainerCreating)

\* C9 as stated: a lock file that exists when LockGuard starts no longer
\* exists after LockGuard has run.
C9_LockGone == (lock0 /\ InSeq("unlock", steps)) => ~lockFile

\* C9 amended: a lock file that exists when LockGuard starts no longer
\* exists after LockGuard has run unless its removal raised; then the file
\* is still there and the failure is logged as an error.
C9_LockGoneUnlessRaised ==
    (lock0 /\ InSeq("unlock", steps)) =>
        /\ lockFile <=> Logged("error", "Could not remove lock file")
        /\ ~lockFile <=> Logged("success", "Removed Lock File")

\* LockGuard removed an existing lock file
C9_Witness ==
    /\ lock0
    /\ InSeq("unlock", steps)
    /\ ~lockFile

\* C10: LockGuard never blocks or aborts the run: once it has run, whether
\* the file was absent, removed or its removal raised, the process is about
\* to start the reap step or has started it (only an interrupt delivered
\* before the reap step starts can come between).
C10_LockGuardProceeds ==
    InSeq("unlock", steps) =>
        \/ pc = "reap"
        \/ InSeq("reap", steps)
        \/ pc = "exited" /\ exit.cause = "KeyboardInterrupt" /\ Last(interrupts).at = "reap"

\* the reap step started after a removal that raised
C10_Witness ==
    /\ lock0
    /\ lockFile
    /\ Logged("error", "Could not remove lock file")
    /\ InSeq("reap", steps)

\* the export command has just returned this output to set_docker_env
BridgeRead(output) ==
    /\ pc = "build"
    /\ last.cmd = "minikube docker-env"
    /\ last.rc = "zero"
    /\ last.out = output

HasLine(output, line) == InSeq(line, SplitLines(output))

\* a line with one of the three prefixes and no "=": split("=", 1)[1] raises
NoAssignment(line) ==
    /\ \E k \in 1..Len(BridgeKeys) : StartsWith(Strip(line), BridgeKeys[k].prefix)
    /\ IndexOf(line, "=") = 0

\* the lines of `output` before its first line `line`
LinesBefore(output, line) ==
    LET ls == SplitLines(output)
        k == CHOOSE i \in 1..Len(ls) : ls[i] = line /\ \A j \in 1..(i - 1) : ls[j] # line
    IN  SubSeq(ls, 1, k - 1)

sHostValue ==
    <<"t", "c", "p", ":", "/", "/", "1", ".", "2", ".", "3", ".", "4", ":", "2", "3", "7", "6">>

\* C11 as stated: when the export output contains the line
\* DOCKER_HOST = "tcp://1.2.3.4:2376", the DOCKER_HOST entry of the
\* environment map is tcp://1.2.3.4:2376 after EnvironmentBridge.
C11_BareLineSetsHost ==
    \A output \in DockerEnvOutputs :
        (BridgeRead(output) /\ HasLine(output, LineHostBare)) =>
            (Has(env, "DOCKER_HOST") /\ env["DOCKER_HOST"] = sHostValue)

\* C11 amended: when the export output contains the line
\* $Env:DOCKER_HOST = "tcp://1.2.3.4:2376" and no line before it has a known
\* prefix without an assignment, the DOCKER_HOST entry of the environment map
\* is tcp://1.2.3.4:2376 after EnvironmentBridge, without the quotes and
\* whatever the entry was before.
C11_PrefixedLineSetsHost ==
    \A output \in DockerEnvOutputs :
        (/\ BridgeRead(output)
         /\ HasLine(output, LineHost)
         /\ \A i \in 1..Len(LinesBefore(output, LineHost)) :
                ~NoAssignment(LinesBefore(output, LineHost)[i])) =>
            (Has(env, "DOCKER_HOST") /\ env["DOCKER_HOST"] = sHostValue)

\* an earlier DOCKER_HOST of the host environment was overwritten
C11_Witness ==
    /\ BridgeRead(DockerEnvFull)
    /\ Has(hostEnv, "DOCKER_HOST")
    /\ hostEnv["DOCKER_HOST"] # sHostValue
    /\ env["DOCKER_HOST"] = sHostValue

\* no line of `output` carries the k-th prefix
LineAbsent(output, k) ==
    \A i \in 1..Len(SplitLines(output)) :
        ~StartsWith(Strip(SplitLines(output)[i]), BridgeKeys[k].prefix)

\* every line of `output` with a known prefix has an assignment
Parseable(output) ==
    \A i \in 1..Len(SplitLines(output)) : ~NoAssignment(SplitLines(output)[i])

BridgeFailed == Last(log) = Line("error", "Failed to configure Docker env", "")

\* C12 as stated: when one of the three expected lines is absent from the
\* export output, its key is not in the environment map after
\* EnvironmentBridge, and no error is logged.
C12_AbsentKeyUnset ==
    \A output \in DockerEnvOutputs : \A k \in 1..Len(BridgeKeys) :
        (BridgeRead(output) /\ LineAbsent(output, k) /\ Parseable(output)) =>
            (~Has(env, BridgeKeys[k].key) /\ ~BridgeFailed)

\* C12 amended: when one of the three expected lines is absent from the
\* export output, its key is left as the host environment had it (not in the
\* map if the host had none, the host's value otherwise, never an empty
\* string written by the bridge), and the absence raises and logs no error.
C12_AbsentKeyUntouched ==
    \A output \in DockerEnvOutputs : \A k \in 1..Len(BridgeKeys) :
        (BridgeRead(output) /\ LineAbsent(output, k)) =>
            /\ Has(env, BridgeKeys[k].key) <=> Has(hostEnv, BridgeKeys[k].key)
            /\ Has(env, BridgeKeys[k].key) =>
                  env[BridgeKeys[k].key] = hostEnv[BridgeKeys[k].key]
            /\ Parseable(output) => ~BridgeFailed

\* the TLS line was absent, the key is not in the map and nothing was logged as an error
C12_Witness ==
    /\ BridgeRead(DockerEnvNoTls)
    /\ ~Has(env, "DOCKER_TLS_VERIFY")
    /\ Has(env, "DOCKER_CERT_PATH")
    /\ ~BridgeFailed

\* EnvironmentBridge has just returned
BridgeDone == pc = "build" /\ last.cmd = "minikube docker-env"

\* C13: when the export command fails or prints a line with a known prefix
\* and no assignment, EnvironmentBridge logs the error, the build step is the
\* next to start, and the environment map is what it was before the step.
C13_FailureKeepsEnv ==
    (BridgeDone /\ (last.rc # "zero" \/ ~Parseable(last.out))) =>
        (BridgeFailed /\ exit = Alive /\ env = hostEnv)

\* C14: every key of the initial environment other than the three bridging
\* keys keeps its value, no key once in the map leaves it, and the map is
\* written only while the export command of EnvironmentBridge is in flight,
\* that is before the build step starts.
BridgingKeys == {"DOCKER_HOST", "DOCKER_TLS_VERIFY", "DOCKER_CERT_PATH"}

\* the constructor has copied the host environment
EnvCopied == ~Has(env, "unset")

C14_EnvFrame ==
    /\ [](EnvCopied =>
            /\ \A k \in DOMAIN hostEnv :
                  Has(env, k) /\ (k \notin BridgingKeys => env[k] = hostEnv[k])
            /\ DOMAIN env \subseteq (DOMAIN hostEnv) \cup BridgingKeys)
    /\ [][/\ pc \notin {"construct", "docker_env"} => env' = env
          /\ EnvCopied => (DOMAIN env) \subseteq (DOMAIN env')
          /\ InSeq("build", steps) => env' = env]_vars

\* the bridge wrote the map and the run reached the tunnel with PATH as it was
C14_Witness ==
    /\ pc = "port_forward"
    /\ Has(env, "DOCKER_CERT_PATH")
    /\ env["DOCKER_HOST"] = sHostValue
    /\ env["PATH"] = hostEnv["PATH"]

\* the way the process ended
NormalCompletion == last.cmd = "kubectl port-forward" /\ last.rc = "zero"
TunnelInterrupted == interrupts # <<>> /\ Last(interrupts).at = "port_forward"
ConfigError == \E i \in 1..Len(log) : log[i].level = "error" /\ log[i].ref = "config.json"
FailFastFailure == last.rc = "nonzero" /\ last.cmd \in FailFast
ClusterStartFailure == last.cmd = "minikube start" /\ last.rc # "zero"

\* C15: the exit code is 0 exactly when the run completed normally or the
\* tunnel was ended by an interrupt (then the farewell is the last message
\* and no error is logged for it), and it is 1 after a config error, a
\* fail-fast command failure or a cluster start failure.
C15_ExitCode ==
    pc = "exited" =>
        /\ exit.code = 0 <=> (NormalCompletion \/ TunnelInterrupted)
        /\ TunnelInterrupted => Last(log) = Line("info", "Goodbye!", "")
        /\ (ConfigError \/ FailFastFailure \/ ClusterStartFailure) => exit.code = 1

\* the tunnel was interrupted and the process ended with code 0
C15_Witness ==
    /\ pc = "exited"
    /\ TunnelInterrupted
    /\ exit.code = 0
    /\ Logged("info", "Goodbye!")

\* the image builds launched so far, and the service directories on disk
Builds == SelectSeq(cmds, LAMBDA c : c.cmd = "docker build")
ServiceDirs ==
    {listdir[i].name : i \in {j \in 1..Len(listdir) : listdir[j].isdir /\ listdir[j].dockerfile}}
BuildCompleted == Logged("success", "Images built.")

\* C16: when the build step has completed, exactly one build was issued for
\* each service directory; a build is in flight only when every command
\* before it has returned; and when a build exits non-zero the process ends
\* there, with no later build and with deploy, health-poll and tunnel never
\* started.
C16_SequentialBuilds ==
    /\ BuildCompleted =>
          /\ Len(Builds) = Cardinality(ServiceDirs)
          /\ \A s \in ServiceDirs :
                Cardinality({i \in 1..Len(Builds) : Builds[i].arg = <<s>>}) = 1
    /\ pc = "building" =>
          /\ Last(cmds).cmd = "docker build"
          /\ last.n = Len(cmds) - 1
          /\ Len(Builds) = service_idx
    /\ (last.cmd = "docker build" /\ last.rc = "nonzero") =>
          /\ pc = "exited"
          /\ last.n = Len(cmds)
          /\ Last(cmds).arg = <<services[Len(Builds)]>>
          /\ ~InSeq("deploy", steps)
          /\ ~InSeq("health-poll", steps)
          /\ ~InSeq("tunnel", steps)

\* two services were built, one after the other, and the step completed
C16_Witness ==
    /\ BuildCompleted
    /\ Len(Builds) = 2
    /\ Builds[1].arg # Builds[2].arg

\* the environment map differs from the host's in a bridging key
Bridged ==
    \E k \in BridgingKeys \cap DOMAIN env : ~Has(hostEnv, k) \/ env[k] # hostEnv[k]
\* the command launched last was launched after the export command of the
\* bridge (commands are only ever appended, so what holds of the last one in
\* every state holds of each of them)
LastAfterBridge ==
    /\ InSeq("bridge-environment", steps)
    /\ Last(cmds).cmd # "minikube docker-env"
ThroughRunner ==
    {"docker build", "terraform init", "terraform apply", "kubectl get pods"}

\* C17 as stated: a command issued after the bridge step is run with the
\* bridged values in its environment only if it is an image build.
C17_BuildOnly ==
    (LastAfterBridge /\ Bridged /\ Last(cmds).env = "self.env") =>
        Last(cmds).cmd = "docker build"

\* C17 amended: every command issued through CommandRunner after the bridge
\* step (image build, IaC initialize and apply, workload-status query) is
\* run with the environment map, bridged values included; the port-forward,
\* launched directly, inherits the host environment and is the only one
\* without them.
C17_RunnerCommandsBridged ==
    LastAfterBridge =>
        /\ Last(cmds).cmd \in ThroughRunner \cup {"kubectl port-forward"}
        /\ Last(cmds).env = "self.env" <=> Last(cmds).cmd \in ThroughRunner
        /\ Last(cmds).env = "os.environ" <=> Last(cmds).cmd = "kubectl port-forward"

\* the map was bridged, the IaC apply ran with it and the port-forward without
C17_Witness ==
    /\ Bridged
    /\ pc = "port_forward"
    /\ Last(cmds).env = "os.environ"
    /\ \E i \in 1..Len(cmds) : cmds[i].cmd = "terraform apply" /\ cmds[i].env = "self.env"

sAddress == <<"1", "0", ".", "0", ".", "0", ".", "2">>

\* C18: whatever the cluster-address query does (exit status zero, non-zero,
\* not launched, interrupted), the bootstrap step returns with the process
\* alive and the bridge-environment step next (only an interrupt between the
\* two steps ends it there), and the recorded address is the retrieved one
\* when the query succeeded and the placeholder otherwise, never unset.
C18_AddressNeverAborts ==
    last.cmd = "minikube ip" =>
        /\ \/ pc = "bridge-environment" /\ exit = Alive
           \/ pc = "docker_env" /\ exit = Alive
           \/ /\ pc = "exited"
              /\ exit.cause = "KeyboardInterrupt"
              /\ Last(interrupts).at = "bridge-environment"
        /\ minikube_ip # None
        /\ minikube_ip = IF last.rc = "zero" THEN sAddress ELSE IpPlaceholder

\* the query exited non-zero, the placeholder was recorded and the bridge runs
C18_Witness ==
    /\ last.cmd = "minikube ip"
    /\ last.rc = "nonzero"
    /\ minikube_ip = IpPlaceholder
    /\ pc = "docker_env"

\* the status query has answered and nothing has completed since
StatusAnswered == last.cmd = "minikube status" /\ last.rc \in {"zero", "nonzero"}
StartIssued == Last(cmds).cmd = "minikube start"

\* C19 as stated: for every status query result, the start command is issued
\* if and only if the running marker is absent from the status output.
C19_StartIffMarkerAbsent ==
    StatusAnswered => (StartIssued <=> ~Contains(last.out, sRunning))

\* C19 amended: the cluster is classified as running exactly when the status
\* query exits zero and its output contains the running marker, and the
\* start command is issued if and only if it is not so classified.
C19_StartIffNotRunning ==
    StatusAnswered =>
        /\ StartIssued <=> ~(last.rc = "zero" /\ Contains(last.out, sRunning))
        /\ Last(log) = Line("success", "Minikube is running.", "")
              <=> (last.rc = "zero" /\ Contains(last.out, sRunning))

\* the marker was in the output of a query that exited non-zero: start issued
C19_Witness ==
    /\ StatusAnswered
    /\ last.rc = "nonzero"
    /\ Contains(last.out, sRunning)
    /\ StartIssued
    /\ pc = "start"

\* no command is launched twice, but for the status query of the poller and
\* the builds of different services
IssuedOnce ==
    \A i, j \in 1..Len(cmds) :
        (i < j /\ cmds[i].cmd = cmds[j].cmd) =>
            \/ cmds[i].cmd = "kubectl get pods"
            \/ cmds[i].cmd = "docker build" /\ cmds[i].arg # cmds[j].arg

\* C20: when every command launched before the tunnel returns, every run
\* ends or starts the tunnel step; on the way no command is launched twice
\* (one build per service at most) but the workload-status query, which is
\* launched 40 times at most.
C20_PipelineEnds ==
    /\ <>(pc = "exited" \/ InSeq("tunnel", steps))
    /\ [](IssuedOnce /\ Queries <= RetryCeiling /\ Len(Builds) <= Len(services))

\* the tunnel step started after two builds and a poll that used every attempt
C20_Witness ==
    /\ InSeq("tunnel", steps)
    /\ Queries = RetryCeiling
    /\ PollTimedOut
    /\ Len(Builds) = 2

====
